---------------------------- MODULE Spec2Model ----------------------------
(***************************************************************************)
(* Layout engine of the grid (src/lib/utils.js): collision test, ordering, *)
(* compaction, bounds correction and the cascading move.                   *)
(*                                                                         *)
(* A layout is a sequence of item records.  The JavaScript code works on   *)
(* arrays of object references and mutates the objects, so every operator  *)
(* below that models a mutating function takes the objects ("heap", a      *)
(* sequence of records in the order of the caller's array) and returns the *)
(* objects after the call next to the value the function returns.          *)
(***************************************************************************)
EXTENDS Integers, Sequences, FiniteSets, TLC

(***************************************************************************)
(* Bounds of the model.                                                    *)
(***************************************************************************)
MaxItems == 3
Cols == 2
MaxRows == 3
MaxH == 2

Min(a, b) == IF a < b THEN a ELSE b
Max(a, b) == IF a > b THEN a ELSE b

CompactTypes == {"vertical", "horizontal", "none"}

(***************************************************************************)
(* bottom(layout): the largest y + h, 0 for the empty layout.              *)
(***************************************************************************)
RECURSIVE bottomFrom(_, _, _)
bottomFrom(layout, k, max) ==
  IF k > Len(layout) THEN max
  ELSE bottomFrom(layout, k + 1,
                  IF layout[k].y + layout[k].h > max
                    THEN layout[k].y + layout[k].h ELSE max)

bottom(layout) == bottomFrom(layout, 1, 0)

(***************************************************************************)
(* cloneLayoutItem: a fresh object with the same fields; moved and static  *)
(* are coerced to booleans (they are booleans throughout the model).       *)
(***************************************************************************)
\* a copy that takes the width for the height and the height for the width
cloneLayoutItemTurned(l) ==
  [i |-> l.i, x |-> l.x, y |-> l.y, w |-> l.h, h |-> l.w,
   moved |-> l.moved, static |-> l.static, isDraggable |-> l.isDraggable]

cloneLayoutItem(l) ==
  [i |-> l.i, x |-> l.x, y |-> l.y, w |-> l.w, h |-> l.h,
   moved |-> l.moved, static |-> l.static, isDraggable |-> l.isDraggable]

cloneLayout(layout) == [k \in 1..Len(layout) |-> cloneLayoutItem(layout[k])]

(***************************************************************************)
(* collides(l1, l2): axis-aligned overlap, never with itself (same id).    *)
(***************************************************************************)
collides(l1, l2) ==
  IF l1.i = l2.i THEN FALSE
  ELSE IF l1.x + l1.w <= l2.x THEN FALSE
  ELSE IF l1.x >= l2.x + l2.w THEN FALSE
  ELSE IF l1.y + l1.h <= l2.y THEN FALSE
  ELSE IF l1.y >= l2.y + l2.h THEN FALSE
  ELSE TRUE

(***************************************************************************)
(* getFirstCollision returns the index of the first colliding element of   *)
(* the array, 0 when there is none (undefined in the code).                *)
(***************************************************************************)
RECURSIVE firstCollisionFrom(_, _, _)
firstCollisionFrom(layout, layoutItem, k) ==
  IF k > Len(layout) THEN 0
  ELSE IF collides(layout[k], layoutItem) THEN k
  ELSE firstCollisionFrom(layout, layoutItem, k + 1)

getFirstCollision(layout, layoutItem) == firstCollisionFrom(layout, layoutItem, 1)

(***************************************************************************)
(* Array.prototype.filter: the subsequence of the elements satisfying the  *)
(* test, in order.                                                         *)
(***************************************************************************)
getStatics(layout) == SelectSeq(layout, LAMBDA l : l.static)

getAllCollisions(layout, layoutItem) ==
  SelectSeq(layout, LAMBDA l : collides(l, layoutItem))


(***************************************************************************)
(* Sorting.  An array is a sequence of references: indices into the heap.  *)
(* sortLayoutItemsByRowCol's comparator returns 0 for equal (y, x), so the *)
(* (stable) sort keeps tied elements in array order.                       *)
(* sortLayoutItemsByColRow's comparator never returns 0: for two elements  *)
(* with equal (x, y) it answers -1 whichever way round it is asked, and    *)
(* the order of tied elements is then the engine's choice.  tie ranks the  *)
(* objects; tied elements come out in the order of their rank, and the     *)
(* caller of the model chooses tie freely.                                 *)
(***************************************************************************)
\* the comparator passed to sort by sortLayoutItemsByRowCol
rowColComparator(a, b) ==
  IF a.y > b.y \/ (a.y = b.y /\ a.x > b.x) THEN 1
  ELSE IF a.y = b.y /\ a.x = b.x THEN 0
  ELSE -1

\* the comparator passed to sort by sortLayoutItemsByColRow
colRowComparator(a, b) ==
  IF a.x > b.x \/ (a.x = b.x /\ a.y > b.y) THEN 1
  ELSE -1

\* the element at j comes before the element at k in the sorted array
RowColBefore(heap, arr, j, k) ==
  LET a == heap[arr[j]]
      b == heap[arr[k]]
  IN  \/ rowColComparator(a, b) < 0
      \/ rowColComparator(a, b) = 0 /\ j < k

\* the comparator orders two elements when it answers differently for the
\* two ways round; when it answers -1 both ways the rank decides
ColRowBefore(heap, arr, tie, j, k) ==
  LET a == heap[arr[j]]
      b == heap[arr[k]]
  IN  \/ colRowComparator(a, b) < 0 /\ colRowComparator(b, a) > 0
      \/ /\ colRowComparator(a, b) < 0
         /\ colRowComparator(b, a) < 0
         /\ tie[arr[j]] < tie[arr[k]]

sortLayoutItemsByRowCol(heap, arr) ==
  [p \in 1..Len(arr) |->
     arr[CHOOSE k \in 1..Len(arr) :
           Cardinality({j \in 1..Len(arr) : RowColBefore(heap, arr, j, k)}) = p - 1]]

sortLayoutItemsByColRow(heap, arr, tie) ==
  [p \in 1..Len(arr) |->
     arr[CHOOSE k \in 1..Len(arr) :
           Cardinality({j \in 1..Len(arr) : ColRowBefore(heap, arr, tie, j, k)}) = p - 1]]

sortLayoutItems(heap, arr, compactType, tie) ==
  IF compactType = "horizontal" THEN sortLayoutItemsByColRow(heap, arr, tie)
  ELSE IF compactType = "vertical" THEN sortLayoutItemsByRowCol(heap, arr)
  ELSE arr

reverse(arr) == [p \in 1..Len(arr) |-> arr[Len(arr) + 1 - p]]

IdentityArray(n) == [k \in 1..n |-> k]

(***************************************************************************)
(* resolveCompactionCollision(layout, item, moveToCoord, axis).            *)
(* layout is the sorted array of the INPUT objects (compact passes sorted, *)
(* whose elements are the caller's items, not clones).  item is the clone  *)
(* being compacted at the outer call and an input object in the nested     *)
(* calls.  heap holds the input objects; the result is the heap after the  *)
(* call.  The early exit of the scan compares otherItem.y with item.y +    *)
(* item.h on both axes, as the code does.                                  *)
(***************************************************************************)
sizeOf(item, axis) == IF axis = "x" THEN item.w ELSE item.h

bumped(item, axis) ==
  IF axis = "x" THEN [item EXCEPT !.x = @ + 1] ELSE [item EXCEPT !.y = @ + 1]

placedAt(item, axis, coord) ==
  IF axis = "x" THEN [item EXCEPT !.x = coord] ELSE [item EXCEPT !.y = coord]

\* the early exit of the scan: if (otherItem.y > item.y + item.h) break
pastItem(otherItem, item) == otherItem.y > item.y + item.h

RECURSIVE resolveScan(_, _, _, _, _, _)
RECURSIVE resolveCompactionCollision(_, _, _, _, _)

\* the for loop of resolveCompactionCollision from index k on; item is the
\* item of the call, already moved by one
resolveScan(heap, sorted, item, k, moveToCoord, axis) ==
  IF k > Len(sorted) THEN heap
  ELSE LET otherItem == heap[sorted[k]]
       IN  IF otherItem.static
             THEN resolveScan(heap, sorted, item, k + 1, moveToCoord, axis)
           ELSE IF pastItem(otherItem, item) THEN heap
           ELSE IF collides(item, otherItem)
             THEN resolveScan(
                    resolveCompactionCollision(heap, sorted, k,
                                               moveToCoord + sizeOf(item, axis), axis),
                    sorted, item, k + 1, moveToCoord, axis)
           ELSE resolveScan(heap, sorted, item, k + 1, moveToCoord, axis)

\* the nested call on the input object at position k of the sorted array
resolveCompactionCollision(heap, sorted, k, moveToCoord, axis) ==
  LET item  == bumped(heap[sorted[k]], axis)
      after == resolveScan([heap EXCEPT ![sorted[k]] = item], sorted, item,
                           k + 1, moveToCoord, axis)
  IN  [after EXCEPT ![sorted[k]] = placedAt(item, axis, moveToCoord)]

\* the outer call, on the clone l of the object at position k of sorted
resolveCompactionCollisionOfClone(heap, sorted, k, l, moveToCoord, axis) ==
  [l    |-> placedAt(l, axis, moveToCoord),
   heap |-> resolveScan(heap, sorted, bumped(l, axis), k + 1, moveToCoord, axis)]

(***************************************************************************)
(* compactItem(compareWith, l, compactType, cols, fullLayout, allowOverlap) *)
(* compareWith holds the statics and the clones placed so far; none of     *)
(* them is changed while l is compacted, so it is a sequence of records.   *)
(* k is the position of l's original in fullLayout (= sorted).             *)
(***************************************************************************)
\* moveUp with an if where the code has a while: one row at most
moveUpOneRow(compareWith, l) ==
  IF l.y > 0 /\ getFirstCollision(compareWith, l) = 0
    THEN [l EXCEPT !.y = @ - 1]
    ELSE l

RECURSIVE moveUp(_, _)
moveUp(compareWith, l) ==
  IF l.y > 0 /\ getFirstCollision(compareWith, l) = 0
    THEN moveUp(compareWith, [l EXCEPT !.y = @ - 1])
    ELSE l

\* moveLeft without its loop: the item stays where it is
notMovedLeft(compareWith, l) == l

RECURSIVE moveLeft(_, _)
moveLeft(compareWith, l) ==
  IF l.x > 0 /\ getFirstCollision(compareWith, l) = 0
    THEN moveLeft(compareWith, [l EXCEPT !.x = @ - 1])
    ELSE l

RECURSIVE moveDown(_, _, _, _, _, _, _, _)
moveDown(compareWith, l, compactType, cols, sorted, k, heap, allowOverlap) ==
  LET c == getFirstCollision(compareWith, l)
  IN  IF c # 0 /\ ~(compactType = "none" /\ allowOverlap)
        THEN LET hit == compareWith[c]
                 r   == IF compactType = "horizontal"
                          THEN resolveCompactionCollisionOfClone(
                                 heap, sorted, k, l, hit.x + hit.w, "x")
                          ELSE resolveCompactionCollisionOfClone(
                                 heap, sorted, k, l, hit.y + hit.h, "y")
                 l2  == IF compactType = "horizontal" /\ r.l.x + r.l.w > cols
                          THEN moveLeft(compareWith,
                                        [r.l EXCEPT !.x = cols - r.l.w, !.y = @ + 1])
                          ELSE r.l
             IN  moveDown(compareWith, l2, compactType, cols, sorted, k,
                          r.heap, allowOverlap)
        ELSE [l |-> l, heap |-> heap]

\* compactItem without the loop that resolves the collisions
compactItemUnresolved(compareWith, l, compactType, cols, sorted, k, heap, allowOverlap) ==
  LET l1 == IF compactType = "vertical"
              THEN moveUp(compareWith,
                          [l EXCEPT !.y = Min(bottom(compareWith), l.y)])
            ELSE IF compactType = "horizontal"
              THEN moveLeft(compareWith, l)
            ELSE l
  IN  [l    |-> [l1 EXCEPT !.y = Max(l1.y, 0), !.x = Max(l1.x, 0)],
       heap |-> heap]

\* compactItem without the loops that pull the item up or to the left
compactItemUnpulled(compareWith, l, compactType, cols, sorted, k, heap, allowOverlap) ==
  LET r == moveDown(compareWith, l, compactType, cols, sorted, k, heap,
                    allowOverlap)
  IN  [l    |-> [r.l EXCEPT !.y = Max(r.l.y, 0), !.x = Max(r.l.x, 0)],
       heap |-> r.heap]

compactItem(compareWith, l, compactType, cols, sorted, k, heap, allowOverlap) ==
  LET l1 == IF compactType = "vertical"
              THEN moveUp(compareWith,
                          [l EXCEPT !.y = Min(bottom(compareWith), l.y)])
            ELSE IF compactType = "horizontal"
              THEN moveLeft(compareWith, l)
            ELSE l
      r  == moveDown(compareWith, l1, compactType, cols, sorted, k, heap,
                     allowOverlap)
  IN  [l    |-> [r.l EXCEPT !.y = Max(r.l.y, 0), !.x = Max(r.l.x, 0)],
       heap |-> r.heap]

(***************************************************************************)
(* compact(layout, compactType, cols, allowOverlap).  The result is        *)
(* [out, heap]: the returned array (new objects) and the caller's objects  *)
(* after the call.                                                         *)
(***************************************************************************)
\* clearMoved that leaves the flag as it is
keepMoved(l) == l

\* l.moved = false
clearMoved(l) == [l EXCEPT !.moved = FALSE]

RECURSIVE compactFrom(_, _, _, _, _, _, _, _)
compactFrom(heap, sorted, k, compareWith, out, compactType, cols, allowOverlap) ==
  IF k > Len(sorted) THEN [out |-> out, heap |-> heap]
  ELSE LET l == cloneLayoutItem(heap[sorted[k]])
       IN  IF ~l.static
             THEN LET r  == compactItem(compareWith, l, compactType, cols,
                                        sorted, k, heap, allowOverlap)
                      l2 == clearMoved(r.l)
                  IN  compactFrom(r.heap, sorted, k + 1, Append(compareWith, l2),
                                  [out EXCEPT ![sorted[k]] = l2],
                                  compactType, cols, allowOverlap)
             ELSE compactFrom(heap, sorted, k + 1, compareWith,
                              [out EXCEPT ![sorted[k]] = clearMoved(l)],
                              compactType, cols, allowOverlap)

compact(layout, compactType, cols, allowOverlap, tie) ==
  compactFrom(layout,
              sortLayoutItems(layout, IdentityArray(Len(layout)), compactType, tie),
              1, getStatics(layout), layout, compactType, cols, allowOverlap)


(***************************************************************************)
(* An optional number (an argument that may be undefined): the empty       *)
(* sequence for undefined, <<v>> for the number v.                         *)
(***************************************************************************)
Undefined == << >>

Number(v) == <<v>>

isNumber(v) == Len(v) = 1

\* the objects an array refers to, in the order of the array
ArrayItems(heap, arr) == [p \in 1..Len(arr) |-> heap[arr[p]]]

(***************************************************************************)
(* correctBounds(layout, bounds): changes the items in place and returns   *)
(* the array it was given.  collidesWith is an array of references: the    *)
(* statics of the layout first, then every non-static item passed so far;  *)
(* a static already corrected is seen at its corrected place.              *)
(***************************************************************************)
RECURSIVE moveStaticDown(_, _, _)
moveStaticDown(heap, collidesWith, k) ==
  IF getFirstCollision(ArrayItems(heap, collidesWith), heap[k]) # 0
    THEN moveStaticDown([heap EXCEPT ![k].y = @ + 1], collidesWith, k)
    ELSE heap

\* correctBoundsFrom without the correction of an item left of column 0
RECURSIVE correctBoundsFromRightOnly(_, _, _, _)
correctBoundsFromRightOnly(heap, k, collidesWith, cols) ==
  IF k > Len(heap) THEN heap
  ELSE LET l0 == heap[k]
           l1 == IF l0.x + l0.w > cols THEN [l0 EXCEPT !.x = cols - l0.w] ELSE l0
           h2 == [heap EXCEPT ![k] = l1]
       IN  IF ~l1.static
             THEN correctBoundsFromRightOnly(h2, k + 1, Append(collidesWith, k), cols)
             ELSE correctBoundsFromRightOnly(moveStaticDown(h2, collidesWith, k),
                                             k + 1, collidesWith, cols)

RECURSIVE correctBoundsFrom(_, _, _, _)
correctBoundsFrom(heap, k, collidesWith, cols) ==
  IF k > Len(heap) THEN heap
  ELSE LET l0 == heap[k]
           l1 == IF l0.x + l0.w > cols THEN [l0 EXCEPT !.x = cols - l0.w] ELSE l0
           l2 == IF l1.x < 0 THEN [l1 EXCEPT !.x = 0, !.w = cols] ELSE l1
           h2 == [heap EXCEPT ![k] = l2]
       IN  IF ~l2.static
             THEN correctBoundsFrom(h2, k + 1, Append(collidesWith, k), cols)
             ELSE correctBoundsFrom(moveStaticDown(h2, collidesWith, k), k + 1,
                                    collidesWith, cols)

correctBounds(layout, cols) ==
  correctBoundsFrom(layout, 1,
                    SelectSeq(IdentityArray(Len(layout)), LAMBDA k : layout[k].static),
                    cols)

(***************************************************************************)
(* getLayoutItem(layout, id): the index of the first item with that id,    *)
(* 0 for undefined.                                                        *)
(***************************************************************************)
getLayoutItem(layout, id) ==
  IF \E k \in 1..Len(layout) : layout[k].i = id
    THEN CHOOSE k \in 1..Len(layout) :
           /\ layout[k].i = id
           /\ \A j \in 1..(k - 1) : layout[j].i # id
    ELSE 0

(***************************************************************************)
(* synchronizeLayoutWithChildren.  A child is [key, grid]: grid is << >>   *)
(* for a child without a data-grid property and <<g>> for one with the     *)
(* data-grid g.  childItems is the forEach over the children, which        *)
(* builds a new array of clones.                                           *)
(***************************************************************************)
RECURSIVE childItems(_, _, _, _)
childItems(initialLayout, children, c, layout) ==
  IF c > Len(children) THEN layout
  ELSE LET child == children[c]
           exists == getLayoutItem(initialLayout, child.key)
       IN  childItems(initialLayout, children, c + 1,
             Append(layout,
               IF exists # 0 /\ child.grid = << >>
                 THEN cloneLayoutItem(initialLayout[exists])
                 ELSE IF child.grid # << >>
                   THEN cloneLayoutItem([child.grid[1] EXCEPT !.i = child.key])
                   ELSE cloneLayoutItem(
                          [i |-> child.key, x |-> 0, y |-> bottom(layout),
                           w |-> 1, h |-> 1, moved |-> FALSE, static |-> FALSE,
                           isDraggable |-> FALSE])))

\* synchronizeLayoutWithChildren that returns the corrected layout uncompacted
synchronizeWithoutCompact(initialLayout, children, cols, compactType, overlapAllowed, tie) ==
  correctBounds(childItems(initialLayout, children, 1, << >>), cols)

synchronizeLayoutWithChildren(initialLayout, children, cols, compactType, overlapAllowed, tie) ==
  LET correctedLayout == correctBounds(childItems(initialLayout, children, 1, << >>), cols)
  IN  IF overlapAllowed
        THEN correctedLayout
        ELSE compact(correctedLayout, compactType, cols, FALSE, tie).out

(***************************************************************************)
(* moveElement and moveElementAwayFromCollision.                           *)
(* s is the state the calls work on:                                       *)
(*   s.heap    the objects of the layout passed to the outermost call      *)
(*   s.arr     the array the layout variable refers to (its elements are   *)
(*             references into heap)                                       *)
(*   s.same    s.arr is the very array passed to the outermost call        *)
(*   s.cloned  the array holds clones (cloneLayout) of the objects         *)
(* l, collidesWith and itemToMove are references into heap.  The nested    *)
(* calls pass no allowOverlap (undefined, so false).                       *)
(***************************************************************************)
RECURSIVE moveElement(_, _, _, _, _, _, _, _, _, _)
RECURSIVE moveCollisions(_, _, _, _, _, _, _, _, _)
RECURSIVE moveElementAwayFromCollision(_, _, _, _, _, _, _, _)

\* the first guard left out
staticAlsoMoved(l) == FALSE

\* the first guard of moveElement: l.static && l.isDraggable !== true
staticNotDraggable(l) == l.static /\ l.isDraggable # TRUE

\* the branch that returns cloneLayout(layout) never taken
overlapNeverReturned(hasCollisions, overlapAllowed) == FALSE

\* the test of the branch that returns cloneLayout(layout)
overlapReturned(hasCollisions, overlapAllowed) == hasCollisions /\ overlapAllowed

\* the branch that prevents the collision without l.x = oldX, l.y = oldY
revertedFlagOnly(l, oldX, oldY) == [l EXCEPT !.moved = FALSE]

\* the item after the branch that prevents the collision
reverted(l, oldX, oldY) == [l EXCEPT !.x = oldX, !.y = oldY, !.moved = FALSE]

\* what a top-level call of moveElement starts from: the caller's array of
\* its objects, and beside it the call stack and what is observed of the
\* cascade: s.stack holds the items of the moveElement calls that passed both
\* guards and have not returned, s.maxDepth its greatest length, s.calls the
\* number of such calls, s.displaced[k] how many times the coordinates of
\* item k were changed, s.revisited whether a call started on an item marked
\* moved that was not the item of the calling call, s.cleared whether a call
\* left the moved flag false on an item that had it true, s.pushes the
\* direct assignments of moveElementAwayFromCollision in mode none: the item
\* assigned, the item it collided with, the objects before and after, the
\* array returned and the number of moveElement calls made meanwhile
topLevel(lay) ==
  [heap |-> lay, arr |-> IdentityArray(Len(lay)), same |-> TRUE, cloned |-> FALSE,
   stack |-> << >>, maxDepth |-> 0, calls |-> 0,
   displaced |-> [k \in 1..Len(lay) |-> 0], revisited |-> FALSE, cleared |-> FALSE,
   pushes |-> << >>]

caller(s) == IF s.stack = << >> THEN 0 ELSE s.stack[Len(s.stack)]

\* a call of moveElement on l passed both guards
entered(s, l) ==
  [s EXCEPT !.stack = Append(@, l),
            !.maxDepth = Max(@, Len(s.stack) + 1),
            !.calls = @ + 1,
            !.revisited = @ \/ (s.heap[l].moved /\ caller(s) # l)]

\* the coordinates of l were assigned: from is the item before
assigned(s, l, from) ==
  IF <<s.heap[l].x, s.heap[l].y>> = <<from.x, from.y>> THEN s
  ELSE [s EXCEPT !.displaced[l] = @ + 1]

\* the call that made r from s returns
returned(s, r) == [r EXCEPT !.stack = s.stack]

moveElement(s, l, x, y, isUserAction, preventCollision, mode, cols, overlapAllowed, tie) ==
  LET item == s.heap[l]
  IN  IF staticNotDraggable(item) THEN s
      ELSE IF Number(item.y) = y /\ Number(item.x) = x THEN s
      ELSE
        LET oldX   == item.x
            oldY   == item.y
            moving == [item EXCEPT !.x = IF isNumber(x) THEN x[1] ELSE @,
                                   !.y = IF isNumber(y) THEN y[1] ELSE @,
                                   !.moved = TRUE]
            heap1  == [s.heap EXCEPT ![l] = moving]
            sorted == sortLayoutItems(heap1, s.arr, mode, tie)
            movingUp ==
              IF mode = "vertical" /\ isNumber(y) THEN oldY >= y[1]
              ELSE IF mode = "horizontal" /\ isNumber(x) THEN oldX >= x[1]
              ELSE FALSE
            ordered == IF movingUp THEN reverse(sorted) ELSE sorted
            noCompactTypeMovingUp ==
              IF mode = "none" /\ isNumber(y) THEN oldY >= y[1] ELSE FALSE
            collisions ==
              SelectSeq(ordered, LAMBDA o : collides(heap1[o], moving))
            hasCollisions == Len(collisions) > 0
            s1 == entered(s, l)
            s2 == assigned([s1 EXCEPT !.heap = heap1], l, item)
        IN  IF overlapReturned(hasCollisions, overlapAllowed)
              THEN returned(s, [s2 EXCEPT !.same = FALSE, !.cloned = TRUE])
            ELSE IF hasCollisions /\ preventCollision
              THEN returned(s, [s1 EXCEPT !.heap = [heap1 EXCEPT ![l] = reverted(moving, oldX, oldY)],
                                          !.cleared = @ \/ (item.moved /\ ~reverted(moving, oldX, oldY).moved)])
            ELSE returned(s, moveCollisions(s2, l, collisions, 1,
                                            isUserAction, mode, cols,
                                            noCompactTypeMovingUp, tie))

\* the short circuit applied only in the nested calls
alreadyMovedBelowTopLevel(s, collision) ==
  s.heap[collision].moved /\ Len(s.stack) > 1

\* the short circuit of the loop: if (collision.moved) continue
alreadyMoved(s, collision) == s.heap[collision].moved

\* the for loop of moveElement over the collisions, from the k-th on
moveCollisions(s, l, collisions, k, isUserAction, mode, cols, noCompactTypeMovingUp, tie) ==
  IF k > Len(collisions) THEN s
  ELSE LET collision == collisions[k]
       IN  IF alreadyMoved(s, collision)
             THEN moveCollisions(s, l, collisions, k + 1, isUserAction, mode,
                                 cols, noCompactTypeMovingUp, tie)
           ELSE IF s.heap[collision].static
             THEN moveCollisions(
                    moveElementAwayFromCollision(s, collision, l, isUserAction,
                                                 mode, cols,
                                                 noCompactTypeMovingUp, tie),
                    l, collisions, k + 1, isUserAction, mode, cols,
                    noCompactTypeMovingUp, tie)
           ELSE moveCollisions(
                  moveElementAwayFromCollision(s, l, collision, isUserAction,
                                               mode, cols,
                                               noCompactTypeMovingUp, tie),
                  l, collisions, k + 1, isUserAction, mode, cols,
                  noCompactTypeMovingUp, tie)

\* the y the vertical rule gives: one row below the top of collidesWith
belowTopOf(cw) == cw.y + 1

\* itemToMove.y = collidesWith.y + collidesWith.h
belowOf(cw) == cw.y + cw.h

\* the branch `collisionNorth && compactType == null` with
\* noCompactTypeMovingUp: the assignment and the sorted copy returned
pushedBelow(s, collidesWith, itemToMove) ==
  LET cw  == s.heap[collidesWith]
      itm == s.heap[itemToMove]
      s1  == assigned([s EXCEPT !.heap[itemToMove].y = belowOf(cw)], itemToMove, itm)
      arr == sortLayoutItemsByRowCol(s1.heap, s.arr)
  IN  [s1 EXCEPT !.arr = arr, !.same = FALSE,
                 !.pushes = Append(@, [item |-> itemToMove, stationary |-> collidesWith,
                                       from |-> s.heap, to |-> s1.heap, arr |-> arr,
                                       calls |-> s1.calls - s.calls])]

moveElementAwayFromCollision(s, collidesWith, itemToMove, isUserAction, mode, cols, noCompactTypeMovingUp, tie) ==
  LET cw       == s.heap[collidesWith]
      itm      == s.heap[itemToMove]
      compactH == mode = "horizontal"
      compactV == mode = "vertical"
      preventCollision == cw.static
      fakeItem ==
        IF mode = "none" /\ ~noCompactTypeMovingUp
          THEN [x |-> itm.x, y |-> Max(cw.y - itm.h, 0),
                w |-> itm.w, h |-> itm.h, i |-> -1]
          ELSE [x |-> IF compactH THEN Max(cw.x - itm.w, 0) ELSE itm.x,
                y |-> IF compactV THEN Max(cw.y - itm.h, 0) ELSE itm.y,
                w |-> itm.w, h |-> itm.h, i |-> -1]
      p  == getFirstCollision(ArrayItems(s.heap, s.arr), fakeItem)
      firstCollision == s.heap[s.arr[p]]
      collisionNorth == p # 0 /\ firstCollision.y + firstCollision.h > cw.y
      collisionWest  == p # 0 /\ cw.x + cw.w > firstCollision.x
      pushed ==
        IF ~compactH /\ ~compactV THEN s
        ELSE moveElement(s, itemToMove,
                         IF compactH THEN Number(itm.x + 1) ELSE Undefined,
                         IF compactV THEN Number(itm.y + 1) ELSE Undefined,
                         FALSE, preventCollision, mode, cols, FALSE, tie)
  IN  IF ~isUserAction THEN pushed
      ELSE IF p = 0
        THEN IF mode = "none" /\ ~noCompactTypeMovingUp
               THEN moveElement(s, itemToMove, Undefined, Number(fakeItem.y),
                                FALSE, preventCollision, mode, cols, FALSE, tie)
               ELSE moveElement(s, itemToMove,
                                IF compactH THEN Number(fakeItem.x) ELSE Undefined,
                                IF compactV THEN Number(fakeItem.y) ELSE Undefined,
                                FALSE, preventCollision, mode, cols, FALSE, tie)
      ELSE IF collisionNorth /\ compactV
        THEN moveElement(s, itemToMove, Undefined, Number(cw.y + 1),
                         FALSE, preventCollision, mode, cols, FALSE, tie)
      ELSE IF collisionNorth /\ mode = "none"
        THEN IF noCompactTypeMovingUp
               THEN pushedBelow(s, collidesWith, itemToMove)
               ELSE LET s1 == moveElement(s, itemToMove, Undefined,
                                          Number(itm.y + 1), FALSE,
                                          preventCollision, mode, cols, FALSE, tie)
                    IN  [s1 EXCEPT !.arr = sortLayoutItemsByRowCol(s1.heap, s.arr),
                                   !.same = FALSE]
      ELSE IF collisionWest /\ compactH
        THEN moveElement(s, collidesWith, Number(itm.x), Undefined,
                         FALSE, preventCollision, mode, cols, FALSE, tie)
      ELSE pushed

(***************************************************************************)
(* State.                                                                  *)
(*   layout       the layout the program holds (the array last returned)   *)
(*   before       the objects of the array passed to the last call, as     *)
(*                they were before the call                                *)
(*   input        the same objects after the call                          *)
(*   op           the last call: its name and what is remembered of it     *)
(*   compactType, allowOverlap, preventCollision   the grid's settings     *)
(*   steps        number of calls made                                     *)
(***************************************************************************)
VARIABLES layout, before, input, op, compactType, allowOverlap,
          preventCollision, steps

vars == <<layout, before, input, op, compactType, allowOverlap,
          preventCollision, steps>>

MaxSteps == 2

Item(k, x, y, w, h, static, moved, isDraggable) ==
  [i |-> k, x |-> x, y |-> y, w |-> w, h |-> h,
   moved |-> moved, static |-> static, isDraggable |-> isDraggable]

\* items as the grid holds them: at least one unit wide and high and inside
\* the Cols columns and MaxRows rows, as calcXY and calcWH clamp them
Shapes ==
  { s \in [x : 0..(Cols - 1), y : 0..(MaxRows - 1), w : 1..Cols, h : 1..MaxH,
           static : BOOLEAN] :
      s.x + s.w <= Cols /\ s.y + s.h <= MaxRows }

LayoutsOf(n) ==
  { [k \in 1..n |-> Item(k, f[k].x, f[k].y, f[k].w, f[k].h, f[k].static,
                         FALSE, FALSE)] : f \in [1..n -> Shapes] }

Rankings(n) ==
  { t \in [1..n -> 1..n] : \A a, b \in 1..n : a # b => t[a] # t[b] }

\* the rankings of the objects that give the orders sortLayoutItemsByColRow
\* can return for the array of all objects: an order s that ascends by
\* (x, y) is returned under the ranking that ranks every object by its place
\* in s
Ties(heap, mode) ==
  IF mode = "horizontal"
    THEN LET n == Len(heap)
         IN  { [o \in 1..n |-> CHOOSE p \in 1..n : s[p] = o] :
                 s \in { r \in Rankings(n) :
                           \A p \in 1..(n - 1) :
                             \/ heap[r[p]].x < heap[r[p + 1]].x
                             \/ /\ heap[r[p]].x = heap[r[p + 1]].x
                                /\ heap[r[p]].y <= heap[r[p + 1]].y } }
    ELSE {IdentityArray(Len(heap))}

Geometry(l) == <<l.x, l.y, l.w, l.h>>

Positions(lay) == [k \in 1..Len(lay) |-> Geometry(lay[k])]

NoOp == [name |-> "init", again |-> FALSE, changed |-> FALSE, prevChanged |-> FALSE]

\* allowOverlap is read by compact only together with compactType = null
InitCompact ==
  /\ \E n \in 1..MaxItems : layout \in LayoutsOf(n)
  /\ before = layout
  /\ input = layout
  /\ op = NoOp
  /\ compactType \in CompactTypes
  /\ allowOverlap \in (IF compactType = "none" THEN BOOLEAN ELSE {FALSE})
  /\ preventCollision = FALSE
  /\ steps = 0

\* compact(layout, compactType, cols, allowOverlap); the caller keeps the
\* returned array
Compact ==
  /\ steps < MaxSteps
  /\ \E tie \in Ties(layout, compactType) :
       \E r \in {compact(layout, compactType, Cols, allowOverlap, tie)} :
         /\ layout' = r.out
         /\ input' = r.heap
         /\ op' = [name |-> "compact", again |-> op.name = "compact",
                   changed |-> Positions(r.out) # Positions(layout),
                   prevChanged |-> op.changed]
  /\ before' = layout
  /\ steps' = steps + 1
  /\ UNCHANGED <<compactType, allowOverlap, preventCollision>>

NextCompact == Compact

SpecCompact == InitCompact /\ [][NextCompact]_vars

C7_VerticalGapFree ==
  (op.name = "compact" /\ compactType = "vertical") =>
    \A a \in 1..Len(layout) :
      ~layout[a].static =>
        \/ layout[a].y = 0
        \/ getFirstCollision(layout, [layout[a] EXCEPT !.y = @ - 1]) # 0

\* the middle of a stack of three was removed: A stays at y = 0 and the item
\* that was at y = 2 comes up to y = 1
C7_Witness ==
  /\ op.name = "compact" /\ compactType = "vertical"
  /\ Positions(before) = <<(<<0, 0, 1, 1>>), (<<0, 2, 1, 1>>)>>
  /\ ~before[1].static /\ ~before[2].static
  /\ Positions(layout) = <<(<<0, 0, 1, 1>>), (<<0, 1, 1, 1>>)>>

(***************************************************************************)
(* C8: compact leaves the array it is given and the items in it as they    *)
(* were (x, y, w, h of every input item).                                  *)
(***************************************************************************)
C8_CompactKeepsInput ==
  op.name = "compact" => Positions(input) = Positions(before)

(***************************************************************************)
(* Layouts as they arrive in props: x and w may lie outside the columns.   *)
(***************************************************************************)
RawRows == 2

\* the layout of the props is corrected or synchronized once
MaxSyncs == 1

RawShapes ==
  { s \in [x : (-1)..(Cols - 1), y : 0..(RawRows - 1), w : 1..(Cols + 1),
           h : 1..MaxH, static : BOOLEAN] : s.y + s.h <= RawRows }

RawLayoutsOf(n) ==
  { [k \in 1..n |-> Item(k, f[k].x, f[k].y, f[k].w, f[k].h, f[k].static,
                         FALSE, FALSE)] : f \in [1..n -> RawShapes] }

\* the data-grid properties a new child can carry
DataGrids ==
  { Item(0, -1, 0, 1, 1, FALSE, FALSE, FALSE),
    Item(0, Cols - 1, 0, Cols + 1, 1, FALSE, FALSE, FALSE) }

\* the children of a render: the children of the items kept, in the order of
\* the layout, and possibly one new child, with or without a data-grid
ChildrenOf(lay) ==
  LET n == Len(lay)
      kept == { SelectSeq([k \in 1..n |-> [key |-> lay[k].i, grid |-> << >>]],
                          LAMBDA c : c.key \in K) : K \in SUBSET (1..n) }
      added == {<< >>} \cup { <<[key |-> n + 1, grid |-> g]>> :
                                g \in {<< >>} \cup { <<d>> : d \in DataGrids } }
  IN  { c \in { a \o b : a \in kept, b \in added } : Len(c) \in 1..MaxItems }

InBounds(lay, cols) ==
  \A k \in 1..Len(lay) : 0 <= lay[k].x /\ lay[k].x + lay[k].w <= cols

InitSync ==
  /\ \E n \in 1..(MaxItems - 1) : layout \in RawLayoutsOf(n)
  /\ before = layout
  /\ input = layout
  /\ op = NoOp
  /\ compactType \in CompactTypes
  /\ allowOverlap \in (IF compactType = "none" THEN BOOLEAN ELSE {FALSE})
  /\ preventCollision = FALSE
  /\ steps = 0

\* correctBounds(layout, {cols}); it works in place and returns its argument
CorrectBounds ==
  /\ steps < MaxSyncs
  /\ layout' = correctBounds(layout, Cols)
  /\ input' = layout'
  /\ before' = layout
  /\ op' = [name |-> "correctBounds", again |-> op.name = "correctBounds",
            changed |-> layout' # layout, prevChanged |-> op.changed]
  /\ steps' = steps + 1
  /\ UNCHANGED <<compactType, allowOverlap, preventCollision>>

\* synchronizeLayoutWithChildren(layout, children, cols, compactType,
\* allowOverlap); before is the array of clones handed to correctBounds
Sync ==
  /\ steps < MaxSyncs
  /\ \E children \in ChildrenOf(layout) :
       \E raw \in {childItems(layout, children, 1, << >>)} :
         \E tie \in Ties(correctBounds(raw, Cols), compactType) :
           /\ layout' = synchronizeLayoutWithChildren(layout, children, Cols,
                                                      compactType, allowOverlap, tie)
           /\ before' = raw
           /\ op' = [name |-> "sync", again |-> op.name = "sync",
                     changed |-> Positions(layout') # Positions(raw),
                     prevChanged |-> op.changed]
  /\ input' = layout
  /\ steps' = steps + 1
  /\ UNCHANGED <<compactType, allowOverlap, preventCollision>>

NextSync == CorrectBounds \/ Sync

SpecSync == InitSync /\ [][NextSync]_vars

C3_CorrectBoundsInBounds ==
  op.name = "correctBounds" => InBounds(layout, Cols)

\* a correction of a layout with an item left of column 0 and an item wider
\* than the grid, one of them static
C3_Witness ==
  /\ op.name = "correctBounds"
  /\ \E a, b \in 1..Len(before) :
       /\ before[a].x < 0 /\ before[b].w > Cols
       /\ before[a].static \/ before[b].static

(***************************************************************************)
(* Moving an item.  The layout held when an item is moved is one that      *)
(* synchronizeLayoutWithChildren or compact returned: unless overlap is    *)
(* allowed it has no collisions and compact leaves it as it is.  At most   *)
(* one item is static, and it may be draggable.                            *)
(***************************************************************************)
MaxMoves == 1

PlainShapes == { s \in Shapes : ~s.static }

MoveLayoutsOf(n) ==
  { [k \in 1..n |-> Item(k, f[k].x, f[k].y, f[k].w, f[k].h,
                         k = fixed, FALSE, k = fixed /\ draggable)] :
      f \in [1..n -> PlainShapes], fixed \in 0..n, draggable \in BOOLEAN }

Settled(lay, mode) ==
  /\ \A a, b \in 1..Len(lay) : ~collides(lay[a], lay[b])
  /\ \E tie \in Ties(lay, mode) : compact(lay, mode, Cols, FALSE, tie).out = lay

\* the positions calcXY can report for the item: inside the columns and rows
Targets(l) == (0..(Cols - l.w)) \X (0..(MaxRows - l.h))

InitMove ==
  /\ compactType \in CompactTypes
  /\ allowOverlap \in BOOLEAN
  /\ preventCollision \in (IF allowOverlap THEN {FALSE} ELSE BOOLEAN)
  /\ \E n \in 1..(IF allowOverlap \/ preventCollision THEN MaxItems - 1 ELSE MaxItems) :
       layout \in { lay \in MoveLayoutsOf(n) :
                      allowOverlap \/ Settled(lay, compactType) }
  /\ before = layout
  /\ input = layout
  /\ op = NoOp
  /\ steps = 0

\* moveElement(layout, l, x, y, isUserAction, preventCollision, compactType,
\* cols, allowOverlap) on the k-th item of the layout held; the returned
\* array becomes the layout held.  tie is an order the first sort of the
\* call can give to items with equal keys; the nested calls sort with it too.
\* The branch that returns cloneLayout(layout) returns copies of the objects
Move ==
  /\ steps < MaxMoves
  /\ \E k \in 1..Len(layout), isUserAction \in BOOLEAN :
       \E t \in Targets(layout[k]) :
         \E tie \in Ties([layout EXCEPT ![k].x = t[1], ![k].y = t[2]], compactType) :
           \E r \in {moveElement(topLevel(layout),
                                  k, Number(t[1]), Number(t[2]), isUserAction,
                                  preventCollision, compactType, Cols,
                                  allowOverlap, tie)} :
             /\ layout' = IF r.cloned THEN cloneLayout(ArrayItems(r.heap, r.arr))
                                      ELSE ArrayItems(r.heap, r.arr)
             /\ input' = r.heap
             /\ op' = [name |-> "move", again |-> FALSE,
                       changed |-> Positions(r.heap) # Positions(layout),
                       prevChanged |-> op.changed,
                       item |-> k, x |-> t[1], y |-> t[2], same |-> r.same,
                       isUserAction |-> isUserAction,
                       depth |-> r.maxDepth, calls |-> r.calls,
                       displaced |-> r.displaced,
                       revisited |-> r.revisited, cleared |-> r.cleared,
                       pushes |-> r.pushes]
  /\ before' = layout
  /\ steps' = steps + 1
  /\ UNCHANGED <<compactType, allowOverlap, preventCollision>>

NextMove == Move \/ Compact

SpecMove == InitMove /\ [][NextMove]_vars

\* a static item that is not explicitly draggable
Fixed(l) == l.static /\ ~l.isDraggable

\* the item of the last move as it would lie at the target, and whether it
\* collides there with an item of the layout
MovedTo == [before[op.item] EXCEPT !.x = op.x, !.y = op.y]

TargetCollides == \E k \in 1..Len(before) : collides(MovedTo, before[k])

OthersKeepGeometry ==
  \A k \in 1..Len(before) :
    k # op.item => /\ Geometry(input[k]) = Geometry(before[k])
                   /\ \A j \in 1..Len(layout) :
                        layout[j].i = before[k].i =>
                          Geometry(layout[j]) = Geometry(before[k])

(***************************************************************************)
(* C4: a moveElement call with preventCollision true and allowOverlap      *)
(* false whose target collides with some item returns the array it was     *)
(* given, with the item at the x and y it had before the call and its      *)
(* moved flag false, and with the coordinates of every other item as they  *)
(* were.                                                                   *)
(***************************************************************************)
C4_PreventedMoveRevertsItem ==
  (op.name = "move" /\ preventCollision /\ ~allowOverlap /\ TargetCollides) =>
    /\ op.same
    /\ [k \in 1..Len(layout) |-> layout[k].i] = [k \in 1..Len(before) |-> before[k].i]
    /\ layout[op.item].x = before[op.item].x
    /\ layout[op.item].y = before[op.item].y
    /\ ~layout[op.item].moved
    /\ input = layout
    /\ OthersKeepGeometry

\* a movable item was sent to another position, onto an item
C4_Witness ==
  /\ op.name = "move" /\ preventCollision /\ ~allowOverlap /\ TargetCollides
  /\ ~Fixed(before[op.item])
  /\ <<op.x, op.y>> # <<before[op.item].x, before[op.item].y>>

(***************************************************************************)
(* C5 as stated: a moveElement call with allowOverlap true whose target    *)
(* collides with some item leaves the item exactly at the target and       *)
(* changes x, y, w, h of no other item.                                    *)
(***************************************************************************)
C5_OverlapMoveLandsOnTarget ==
  (op.name = "move" /\ allowOverlap /\ TargetCollides) =>
    /\ \A j \in 1..Len(layout) :
         layout[j].i = before[op.item].i =>
           layout[j].x = op.x /\ layout[j].y = op.y
    /\ OthersKeepGeometry

(***************************************************************************)
(* C5 for the items moveElement moves at all: those that are not static,   *)
(* or are static and explicitly draggable.  For them the call with         *)
(* allowOverlap true and a colliding target leaves the item exactly at the *)
(* target and changes x, y, w, h of no other item.                         *)
(***************************************************************************)
C5_OverlapMoveOfMovableLandsOnTarget ==
  (op.name = "move" /\ allowOverlap /\ TargetCollides
     /\ ~Fixed(before[op.item])) =>
    /\ \A j \in 1..Len(layout) :
         layout[j].i = before[op.item].i =>
           layout[j].x = op.x /\ layout[j].y = op.y
    /\ OthersKeepGeometry

\* a movable item was sent to another position, onto an item, with overlap
\* allowed
C5_Witness ==
  /\ op.name = "move" /\ allowOverlap /\ TargetCollides
  /\ ~Fixed(before[op.item])
  /\ <<op.x, op.y>> # <<before[op.item].x, before[op.item].y>>
  /\ ~op.same

(***************************************************************************)
(* C9: a static item that is not explicitly draggable has the same x and y *)
(* before and after every call of compact and every call of moveElement    *)
(* with its cascade, whether it is the item passed or an item collided     *)
(* with; this holds of the caller's object and of the item with its id in  *)
(* the returned layout.                                                    *)
(***************************************************************************)
C9_StaticItemStays ==
  op.name \in {"compact", "move"} =>
    \A k \in 1..Len(before) :
      Fixed(before[k]) =>
        /\ input[k].x = before[k].x /\ input[k].y = before[k].y
        /\ \A j \in 1..Len(layout) :
             layout[j].i = before[k].i =>
               layout[j].x = before[k].x /\ layout[j].y = before[k].y

\* an item was dropped onto a static item, collisions neither prevented nor
\* allowed, and the cascade changed the position of some item
C9_Witness ==
  /\ op.name = "move" /\ ~preventCollision /\ ~allowOverlap
  /\ \E k \in 1..Len(before) :
       /\ k # op.item
       /\ Fixed(before[k])
       /\ collides(MovedTo, before[k])
  /\ Geometry(input[op.item]) # Geometry(MovedTo)

(***************************************************************************)
(* C10: the layout compact returns is as long as its input, has at every   *)
(* index the item with the id of the input item at that index, and has     *)
(* moved = false on every item, whatever the moved flags of the input.     *)
(***************************************************************************)
C10_CompactKeepsOrderClearsMoved ==
  op.name = "compact" =>
    /\ Len(layout) = Len(before)
    /\ \A k \in 1..Len(layout) : layout[k].i = before[k].i /\ ~layout[k].moved

\* a compaction of a layout in which a move left moved flags set and put
\* the items in another order than that of their ids
C10_Witness ==
  /\ op.name = "compact"
  /\ \E k \in 1..Len(before) : before[k].moved
  /\ \E k \in 1..Len(before) : before[k].i # k
  /\ Len(before) = MaxItems

(***************************************************************************)
(* C11: every top-level call of moveElement ends, and in its cascade the   *)
(* calls of moveElement nested below the top-level call are never more     *)
(* deeply nested than the layout has items.                                *)
(***************************************************************************)
C11_CascadeDepthWithinItemCount ==
  op.name = "move" => op.depth - 1 <= Len(before)

(***************************************************************************)
(* C12, as stated: in one cascade the coordinates of each item are changed *)
(* at most once.                                                           *)
(***************************************************************************)
C12_ItemDisplacedAtMostOnce ==
  op.name = "move" => \A k \in 1..Len(before) : op.displaced[k] <= 1

(***************************************************************************)
(* C12, amended: in one cascade a call of moveElement that starts on an    *)
(* item whose moved flag is set is always made by the call that is moving  *)
(* that same item; no call made for another item displaces an item marked  *)
(* moved.                                                                  *)
(***************************************************************************)
C12_MarkedItemMovedOnlyByItsOwnCall ==
  op.name = "move" => ~op.revisited

\* a cascade in which the call for the first collision marked a later
\* collision of the same call moved, and some item was displaced twice
C12_Witness ==
  /\ op.name = "move" /\ ~op.revisited
  /\ \E k \in 1..Len(before) : op.displaced[k] >= 2
  /\ \E j \in 1..Len(before) :
       /\ j # op.item
       /\ input[j].moved
       /\ collides(MovedTo, before[j])
       /\ \E a \in 1..Len(before) :
            a # op.item /\ a # j /\ input[a].moved /\ collides(MovedTo, before[a])

(***************************************************************************)
(* C13: during a cascade of moveElement no call leaves the moved flag      *)
(* false on an item that had it true when the call started.                *)
(***************************************************************************)
C13_MovedFlagNotClearedInCascade ==
  op.name = "move" => ~op.cleared

(***************************************************************************)
(* C19: moveElement called on an item that is static and not explicitly    *)
(* draggable returns the array it was given and leaves every field of      *)
(* every item as it was, whatever the target, isUserAction,                 *)
(* preventCollision, allowOverlap and the mode.                            *)
(***************************************************************************)
C19_StaticMoveReturnsInputUntouched ==
  (op.name = "move" /\ Fixed(before[op.item])) =>
    /\ op.same
    /\ input = before
    /\ layout = before

\* a static item that is not draggable was sent, as a user action and with
\* overlap allowed, to another position where it would collide
C19_Witness ==
  /\ op.name = "move" /\ Fixed(before[op.item])
  /\ op.isUserAction /\ allowOverlap
  /\ <<op.x, op.y>> # <<before[op.item].x, before[op.item].y>>
  /\ TargetCollides

(***************************************************************************)
(* Scenario A: on ScenarioCols columns, in mode vertical, a layout holds   *)
(* the static item 1 = {x:0, y:0, w:2, h:2}, the movable item 2 of size    *)
(* 2 x 2 and possibly a third item; the layout is compacted.  Item 2 is    *)
(* moved onto (0,0) with moveElement and the layout returned is compacted, *)
(* as the grid does after every move.                                      *)
(***************************************************************************)
ScenarioCols == 12

ScenarioRows == 4

SettledIn(lay, mode, cols) ==
  /\ \A a, b \in 1..Len(lay) : a # b => ~collides(lay[a], lay[b])
  /\ \E tie \in Ties(lay, mode) : compact(lay, mode, cols, FALSE, tie).out = lay

ScenarioALayouts ==
  LET obstacle == Item(1, 0, 0, 2, 2, TRUE, FALSE, FALSE)
      movers   == { Item(2, x, y, 2, 2, FALSE, FALSE, FALSE) :
                      x \in 0..(ScenarioCols - 2), y \in 0..ScenarioRows }
      thirds   == { Item(3, x, y, w, h, FALSE, FALSE, FALSE) :
                      x \in 0..(ScenarioCols - 1), y \in 0..ScenarioRows,
                      w \in 1..2, h \in 1..2 }
      orders   == { <<obstacle, m>> : m \in movers }
                    \cup { <<m, obstacle>> : m \in movers }
                    \cup { <<obstacle, m, t>> : m \in movers, t \in thirds }
                    \cup { <<t, m, obstacle>> : m \in movers, t \in thirds }
  IN  { lay \in orders :
          /\ \A k \in 1..Len(lay) : lay[k].x + lay[k].w <= ScenarioCols
          /\ SettledIn(lay, "vertical", ScenarioCols) }

InitScenarioA ==
  /\ compactType = "vertical"
  /\ allowOverlap = FALSE
  /\ preventCollision = FALSE
  /\ layout \in ScenarioALayouts
  /\ before = layout
  /\ input = layout
  /\ op = NoOp
  /\ steps = 0

\* moveElement(layout, l, 0, 0, isUserAction, false, 'vertical', 12) on the
\* movable item 2
DropOnStatic ==
  /\ op.name = "init"
  /\ \E k \in 1..Len(layout), isUserAction \in BOOLEAN :
       /\ layout[k].i = 2
       /\ \E r \in {moveElement(topLevel(layout), k, Number(0), Number(0),
                                isUserAction, preventCollision, compactType,
                                ScenarioCols, allowOverlap,
                                IdentityArray(Len(layout)))} :
            /\ layout' = ArrayItems(r.heap, r.arr)
            /\ input' = r.heap
            /\ op' = [name |-> "drop", isUserAction |-> isUserAction,
                      cleared |-> r.cleared]
  /\ before' = layout
  /\ steps' = steps + 1
  /\ UNCHANGED <<compactType, allowOverlap, preventCollision>>

\* compact(layout, 'vertical', 12) of the layout the move returned
CompactAfterDrop ==
  /\ op.name = "drop"
  /\ \E r \in {compact(layout, compactType, ScenarioCols, allowOverlap,
                       IdentityArray(Len(layout)))} :
       /\ layout' = r.out
       /\ input' = r.heap
       /\ op' = [name |-> "compact", after |-> "drop",
                 isUserAction |-> op.isUserAction, cleared |-> op.cleared]
  /\ before' = layout
  /\ steps' = steps + 1
  /\ UNCHANGED <<compactType, allowOverlap, preventCollision>>

NextScenarioA == DropOnStatic \/ CompactAfterDrop

SpecScenarioA == InitScenarioA /\ [][NextScenarioA]_vars

(***************************************************************************)
(* C14: in Scenario A, once the move of the 2 x 2 item onto (0,0) has been *)
(* compacted, the moved item is at x = 0, y = 2 and the static item is     *)
(* still at (0,0) with its size.                                           *)
(***************************************************************************)
C14_ScenarioAMovedItemBelowStatic ==
  (op.name = "compact" /\ op.after = "drop") =>
    \A k \in 1..Len(layout) :
      /\ layout[k].i = 2 => layout[k].x = 0 /\ layout[k].y = 2
      /\ layout[k].i = 1 => Geometry(layout[k]) = <<0, 0, 2, 2>>

\* the scenario run as a user action: the move left the item at (0,0), on
\* top of the static item, and the compaction put it below
C14_Witness ==
  /\ op.name = "compact" /\ op.after = "drop" /\ op.isUserAction
  /\ \E k \in 1..Len(before) :
       before[k].i = 2 /\ before[k].x = 0 /\ before[k].y = 0
  /\ \E k \in 1..Len(layout) :
       layout[k].i = 2 /\ layout[k].x = 0 /\ layout[k].y = 2

(***************************************************************************)
(* Scenario C: in mode horizontal a compacted layout of items inside the   *)
(* grid gets one more item, placed at x = Cols, and is compacted.          *)
(***************************************************************************)
\* the layout lay with the item m placed at x = Cols inserted at position p
placedIn(lay, m, p) ==
  [k \in 1..(Len(lay) + 1) |->
     IF k < p THEN lay[k]
     ELSE IF k = p THEN Item(Len(lay) + 1, Cols, m.y, m.w, m.h, FALSE, FALSE, FALSE)
     ELSE lay[k - 1]]

PlacedLayouts ==
  UNION { UNION { { placedIn(lay, m, p) :
                      m \in { s \in PlainShapes : s.x = 0 }, p \in 1..(n + 1) } :
                  lay \in { l \in MoveLayoutsOf(n) : Settled(l, "horizontal") } } :
          n \in 0..(MaxItems - 1) }

InitPlaced ==
  /\ compactType = "horizontal"
  /\ allowOverlap = FALSE
  /\ preventCollision = FALSE
  /\ layout \in PlacedLayouts
  /\ before = layout
  /\ input = layout
  /\ op = NoOp
  /\ steps = 0

SpecPlaced == InitPlaced /\ [][NextCompact]_vars

\* the item that was placed at x = Cols, in the layout compacted
Placed(k) == before[k].x = Cols

\* no other item of the layout given lies in a row of the item at k
RowsFree(k) ==
  \A j \in 1..Len(before) :
    j # k => \/ before[j].y >= before[k].y + before[k].h
             \/ before[k].y >= before[j].y + before[j].h

(***************************************************************************)
(* C15, as stated: in mode horizontal compact puts an item placed at       *)
(* x = cols at x = cols - w and one row lower.                             *)
(***************************************************************************)
C15_PlacedItemWraps ==
  (op.name = "compact" /\ compactType = "horizontal") =>
    \A k \in 1..Len(before) :
      Placed(k) => /\ layout[k].x = Cols - before[k].w
                   /\ layout[k].y = before[k].y + 1

(***************************************************************************)
(* C15, amended: in mode horizontal compact leaves an item placed at       *)
(* x = cols inside the grid (x + w <= cols) at a y not smaller than it     *)
(* had, colliding with no other item; if no other item lies in its rows,   *)
(* it ends at x = 0 in the same rows: the wrap rule is not applied.        *)
(***************************************************************************)
C15_PlacedItemEndsInsideGrid ==
  (op.name = "compact" /\ compactType = "horizontal") =>
    \A k \in 1..Len(before) :
      Placed(k) =>
        /\ layout[k].x + layout[k].w <= Cols
        /\ layout[k].y >= before[k].y
        /\ \A j \in 1..Len(layout) : j # k => ~collides(layout[j], layout[k])
        /\ RowsFree(k) => layout[k].x = 0 /\ layout[k].y = before[k].y

\* the placed item could not stay in its rows: it went down by more than
\* one row and ended left of cols - w
C15_Witness ==
  /\ op.name = "compact" /\ compactType = "horizontal"
  /\ \E k \in 1..Len(before) :
       /\ Placed(k)
       /\ layout[k].y > before[k].y + 1
       /\ layout[k].x < Cols - before[k].w

(***************************************************************************)
(* The resize helpers.  A rectangle is a record [top, left, width,        *)
(* height] of pixels; the newSize argument of resizeItemInDirection may    *)
(* lack fields, so its fields are optional numbers.                        *)
(***************************************************************************)
constrainWidth(left, currentWidth, newWidth, containerWidth) ==
  IF left + newWidth > containerWidth THEN currentWidth ELSE newWidth

constrainHeight(top, currentHeight, newHeight) ==
  IF top < 0 THEN currentHeight ELSE newHeight

constrainLeft(left) == Max(0, left)

constrainTop(top) == Max(0, top)

resizeNorth(currentSize, newSize, containerWidth) ==
  LET top == currentSize.top - (newSize.height - currentSize.height)
  IN  [left   |-> newSize.left,
       width  |-> newSize.width,
       height |-> constrainHeight(top, currentSize.height, newSize.height),
       top    |-> constrainTop(top)]

resizeEast(currentSize, newSize, containerWidth) ==
  [top    |-> newSize.top,
   height |-> newSize.height,
   width  |-> constrainWidth(currentSize.left, currentSize.width,
                             newSize.width, containerWidth),
   left   |-> constrainLeft(newSize.left)]

\* resizeWest that keeps the proposed left, as resizeEast does
resizeWestAsEast(currentSize, newSize, containerWidth) ==
  resizeEast(currentSize, newSize, containerWidth)

resizeWest(currentSize, newSize, containerWidth) ==
  LET left == currentSize.left - (newSize.width - currentSize.width)
  IN  [height |-> newSize.height,
       width  |-> IF left < 0
                    THEN currentSize.width
                    ELSE constrainWidth(currentSize.left, currentSize.width,
                                        newSize.width, containerWidth),
       top    |-> constrainTop(newSize.top),
       left   |-> constrainLeft(left)]

resizeSouth(currentSize, newSize, containerWidth) ==
  [width  |-> newSize.width,
   left   |-> newSize.left,
   height |-> constrainHeight(newSize.top, currentSize.height, newSize.height),
   top    |-> constrainTop(newSize.top)]

\* resizeNorthWest with the output of resizeWest passed as currentSize too
resizeNorthWestChained(currentSize, newSize, containerWidth) ==
  resizeNorth(resizeWest(currentSize, newSize, containerWidth),
              resizeWest(currentSize, newSize, containerWidth), containerWidth)

\* second(args[0], first(...args), args[2])
resizeNorthEast(currentSize, newSize, containerWidth) ==
  resizeNorth(currentSize, resizeEast(currentSize, newSize, containerWidth), containerWidth)

resizeNorthWest(currentSize, newSize, containerWidth) ==
  resizeNorth(currentSize, resizeWest(currentSize, newSize, containerWidth), containerWidth)

resizeSouthEast(currentSize, newSize, containerWidth) ==
  resizeSouth(currentSize, resizeEast(currentSize, newSize, containerWidth), containerWidth)

resizeSouthWest(currentSize, newSize, containerWidth) ==
  resizeSouth(currentSize, resizeWest(currentSize, newSize, containerWidth), containerWidth)

Directions == {"n", "ne", "e", "se", "s", "sw", "w", "nw"}

ordinalResizeHandlerMap(direction, currentSize, newSize, containerWidth) ==
  CASE direction = "n"  -> resizeNorth(currentSize, newSize, containerWidth)
    [] direction = "ne" -> resizeNorthEast(currentSize, newSize, containerWidth)
    [] direction = "e"  -> resizeEast(currentSize, newSize, containerWidth)
    [] direction = "se" -> resizeSouthEast(currentSize, newSize, containerWidth)
    [] direction = "s"  -> resizeSouth(currentSize, newSize, containerWidth)
    [] direction = "sw" -> resizeSouthWest(currentSize, newSize, containerWidth)
    [] direction = "w"  -> resizeWest(currentSize, newSize, containerWidth)
    [] direction = "nw" -> resizeNorthWest(currentSize, newSize, containerWidth)

\* { ...currentSize, ...newSize }
spread(currentSize, newSize) ==
  [f \in {"top", "left", "width", "height"} |->
     IF isNumber(newSize[f]) THEN newSize[f][1] ELSE currentSize[f]]

resizeItemInDirection(direction, currentSize, newSize, containerWidth) ==
  IF direction \notin Directions THEN newSize
  ELSE ordinalResizeHandlerMap(direction, currentSize,
                               spread(currentSize, newSize), containerWidth)

(***************************************************************************)
(* Resizing: input holds the arguments of one call of                      *)
(* resizeItemInDirection, layout the rectangle it returned.                *)
(***************************************************************************)
MaxPx == 2

Rectangles ==
  [top : 0..MaxPx, left : 0..MaxPx, width : 1..MaxPx, height : 1..MaxPx]

\* what the resize handler proposes: a width and a height, each possibly
\* absent, and possibly a top and a left
Proposals ==
  [top : {Undefined, Number(-1), Number(1)},
   left : {Undefined, Number(-1), Number(1)},
   width  : {Undefined} \cup { Number(v) : v \in 1..(MaxPx + 1) },
   height : {Undefined} \cup { Number(v) : v \in 1..(MaxPx + 1) }]

\* Scenario D of the specification
ScenarioD ==
  [direction |-> "nw",
   currentSize |-> [top |-> 100, left |-> 100, width |-> 200, height |-> 150],
   newSize |-> [top |-> Number(80), left |-> Number(80),
                width |-> Number(220), height |-> Number(170)],
   containerWidth |-> 1000]

InitResize ==
  /\ input \in [direction : Directions \cup {"x"}, currentSize : Rectangles,
                newSize : Proposals,
                containerWidth : (MaxPx + 1)..(MaxPx + 2)] \cup {ScenarioD}
  /\ layout = input.currentSize
  /\ before = input.currentSize
  /\ op = NoOp
  /\ compactType = "none"
  /\ allowOverlap = FALSE
  /\ preventCollision = FALSE
  /\ steps = 0

Resize ==
  /\ op.name = "init"
  /\ layout' = resizeItemInDirection(input.direction, input.currentSize,
                                     input.newSize, input.containerWidth)
  /\ op' = [name |-> "resize"]
  /\ steps' = steps + 1
  /\ UNCHANGED <<before, input, compactType, allowOverlap, preventCollision>>

NextResize == Resize

SpecResize == InitResize /\ [][NextResize]_vars

\* the rectangle proposed to the handler: newSize over currentSize
Proposed == spread(input.currentSize, input.newSize)

(***************************************************************************)
(* C16: for the handle nw, whenever left = currentLeft - (newWidth -       *)
(* currentWidth) and top = currentTop - (newHeight - currentHeight) are    *)
(* not negative and currentLeft + newWidth <= containerWidth, the result   *)
(* of resizeItemInDirection is exactly {left, top, width: newWidth,        *)
(* height: newHeight}.                                                     *)
(***************************************************************************)
C16_NorthWestUnclamped ==
  (op.name = "resize" /\ input.direction = "nw") =>
    LET left == before.left - (Proposed.width - before.width)
        top  == before.top - (Proposed.height - before.height)
    IN  (left >= 0 /\ top >= 0
         /\ before.left + Proposed.width <= input.containerWidth) =>
          layout = [left |-> left, top |-> top,
                    width |-> Proposed.width, height |-> Proposed.height]

\* Scenario D: {top:100, left:100, width:200, height:150} resized by nw to
\* width 220 and height 170 in a container 1000 wide
C16_Witness ==
  /\ op.name = "resize" /\ input = ScenarioD
  /\ layout = [left |-> 80, top |-> 80, width |-> 220, height |-> 170]

\* the primitive adjuster of a side
primitive(side, currentSize, newSize, containerWidth) ==
  CASE side = "n" -> resizeNorth(currentSize, newSize, containerWidth)
    [] side = "e" -> resizeEast(currentSize, newSize, containerWidth)
    [] side = "w" -> resizeWest(currentSize, newSize, containerWidth)
    [] side = "s" -> resizeSouth(currentSize, newSize, containerWidth)

Diagonals == {"ne", "nw", "se", "sw"}

\* the sides of a diagonal handle: the first primitive applied and the second
firstOf(direction) == IF direction \in {"ne", "se"} THEN "e" ELSE "w"

secondOf(direction) == IF direction \in {"ne", "nw"} THEN "n" ELSE "s"

\* the output rectangle of the first primitive
FirstOutput ==
  primitive(firstOf(input.direction), before, Proposed, input.containerWidth)

(***************************************************************************)
(* C20, as stated: for the handles ne, nw, se and sw the result is what    *)
(* the second primitive returns when the output rectangle of the first     *)
(* primitive is its current rectangle.                                     *)
(***************************************************************************)
C20_SecondTakesFirstOutputAsCurrent ==
  (op.name = "resize" /\ input.direction \in Diagonals) =>
    layout = primitive(secondOf(input.direction), FirstOutput, FirstOutput,
                       input.containerWidth)

(***************************************************************************)
(* C20, amended: for the handles ne, nw, se and sw the result is what the  *)
(* second primitive returns when the item's original rectangle is its      *)
(* current rectangle and the output rectangle of the first primitive is    *)
(* the rectangle proposed to it.                                           *)
(***************************************************************************)
C20_SecondTakesOriginalAsCurrent ==
  (op.name = "resize" /\ input.direction \in Diagonals) =>
    layout = primitive(secondOf(input.direction), before, FirstOutput,
                       input.containerWidth)

\* a resize by nw where the two readings give different rectangles
C20_Witness ==
  /\ op.name = "resize" /\ input.direction = "nw"
  /\ layout = primitive("n", before, FirstOutput, input.containerWidth)
  /\ layout # primitive("n", FirstOutput, FirstOutput, input.containerWidth)

(***************************************************************************)
(* The pixel calculations.  A JavaScript number is a pair <<n, d>>: the    *)
(* rational n / d when d > 0, and NaN, Infinity or -Infinity when d = 0.   *)
(***************************************************************************)
Rat(n, d) == <<n, d>>

NaN == <<0, 0>>

Infinity == <<1, 0>>

MinusInfinity == <<-1, 0>>

isFinite(q) == q[2] > 0

ratAdd(a, b) == <<a[1] * b[2] + b[1] * a[2], a[2] * b[2]>>

ratSub(a, b) == <<a[1] * b[2] - b[1] * a[2], a[2] * b[2]>>

ratMul(a, b) == <<a[1] * b[1], a[2] * b[2]>>

ratLess(a, b) == a[1] * b[2] < b[1] * a[2]

\* a / b
ratDiv(a, b) ==
  IF b[1] = 0
    THEN (IF a[1] = 0 THEN NaN ELSE IF a[1] > 0 THEN Infinity ELSE MinusInfinity)
    ELSE IF b[1] > 0 THEN <<a[1] * b[2], a[2] * b[1]>>
    ELSE <<(0 - a[1]) * b[2], a[2] * (0 - b[1])>>

\* Math.floor in the place of Math.round
mathFloor(q) ==
  IF ~isFinite(q) THEN q ELSE Rat(q[1] \div q[2], 1)

\* Math.round: the nearest integer, a half rounded up
mathRound(q) ==
  IF ~isFinite(q) THEN q
  ELSE Rat((2 * q[1] + q[2]) \div (2 * q[2]), 1)

\* clamp(num, lowerBound, upperBound): Math.max(Math.min(num, upperBound), lowerBound)
\* of a rounded number and two integers
clamp(num, lowerBound, upperBound) ==
  IF num = NaN THEN NaN
  ELSE IF num = Infinity THEN Rat(Max(upperBound, lowerBound), 1)
  ELSE IF num = MinusInfinity THEN Rat(lowerBound, 1)
  ELSE Rat(Max(Min(num[1], upperBound), lowerBound), 1)

calcGridColWidth(positionParams) ==
  ratDiv(ratSub(ratSub(positionParams.containerWidth,
                       ratMul(positionParams.margin[1], Rat(positionParams.cols - 1, 1))),
                ratMul(positionParams.containerPadding[1], Rat(2, 1))),
         Rat(positionParams.cols, 1))

\* gridUnits is an integer here, so the guard !Number.isFinite(gridUnits)
\* never returns
calcGridItemWHPx(gridUnits, colOrRowSize, marginPx) ==
  mathRound(ratAdd(ratMul(colOrRowSize, Rat(gridUnits, 1)),
                   ratMul(Rat(Max(0, gridUnits - 1), 1), marginPx)))

\* state.kind is "none" when state is undefined or has neither field,
\* "dragging" when it has state.dragging, "resizing" when it has
\* state.resizing with a top and a left
calcGridItemPosition(positionParams, x, y, w, h, state) ==
  LET margin   == positionParams.margin
      padding  == positionParams.containerPadding
      colWidth == calcGridColWidth(positionParams)
      size == IF state.kind = "resizing"
                THEN [width  |-> mathRound(state.width),
                      height |-> mathRound(state.height)]
                ELSE [width  |-> calcGridItemWHPx(w, colWidth, margin[1]),
                      height |-> calcGridItemWHPx(h, positionParams.rowHeight, margin[2])]
      place == IF state.kind = "dragging"
                 THEN [top  |-> mathRound(state.top),
                       left |-> mathRound(state.left)]
               ELSE IF state.kind = "resizing"
                 THEN [top  |-> mathRound(state.top),
                       left |-> mathRound(state.left)]
               ELSE [top  |-> mathRound(ratAdd(ratMul(ratAdd(positionParams.rowHeight, margin[2]),
                                                      Rat(y, 1)), padding[2])),
                     left |-> mathRound(ratAdd(ratMul(ratAdd(colWidth, margin[1]),
                                                      Rat(x, 1)), padding[1]))]
  IN  [width |-> size.width, height |-> size.height,
       top |-> place.top, left |-> place.left]

calcXY(positionParams, top, left, w, h) ==
  LET margin   == positionParams.margin
      padding  == positionParams.containerPadding
      colWidth == calcGridColWidth(positionParams)
      x == mathRound(ratDiv(ratSub(left, padding[1]),
                            ratAdd(colWidth, margin[1])))
      y == mathRound(ratDiv(ratSub(top, padding[2]),
                            ratAdd(positionParams.rowHeight, margin[2])))
  IN  [x |-> clamp(x, 0, positionParams.cols - w),
       y |-> clamp(y, 0, positionParams.maxRows - h)]

(***************************************************************************)
(* The round trip: input holds the grid parameters, an item's x, y, w, h   *)
(* and the drag or resize state; Position computes the pixel rectangle,    *)
(* XY translates its top and left back.                                    *)
(***************************************************************************)
MaxGridCols == 3

Half == Rat(1, 2)

PositionParams ==
  [margin : {Rat(0, 1), Rat(1, 1)} \X {Rat(0, 1), Rat(1, 1)},
   containerPadding : {Rat(0, 1), Half} \X {Rat(0, 1), Half},
   containerWidth : {Rat(1, 1), Rat(4, 1), Rat(7, 1)},
   cols : 1..MaxGridCols,
   rowHeight : {Half, Rat(1, 1), Rat(2, 1)},
   maxRows : {MaxRows}]

GridItemStates ==
  {[kind |-> "none", top |-> NaN, left |-> NaN, width |-> NaN, height |-> NaN],
   [kind |-> "dragging", top |-> Rat(3, 1), left |-> Rat(5, 2),
    width |-> NaN, height |-> NaN],
   [kind |-> "resizing", top |-> Rat(1, 1), left |-> Rat(2, 1),
    width |-> Rat(7, 2), height |-> Rat(3, 1)]}

InitPixels ==
  /\ input \in { i \in [params : PositionParams, x : 0..(MaxGridCols - 1),
                        y : 0..(MaxRows - 1), w : 1..MaxGridCols, h : 1..MaxH,
                        state : GridItemStates] :
                   /\ i.x <= i.params.cols - i.w
                   /\ i.y <= i.params.maxRows - i.h }
  /\ layout = [x |-> Rat(input.x, 1), y |-> Rat(input.y, 1)]
  /\ before = layout
  /\ op = NoOp
  /\ compactType = "none"
  /\ allowOverlap = FALSE
  /\ preventCollision = FALSE
  /\ steps = 0

\* calcGridItemPosition(positionParams, x, y, w, h, state)
Position ==
  /\ op.name = "init"
  /\ layout' = calcGridItemPosition(input.params, input.x, input.y, input.w,
                                    input.h, input.state)
  /\ op' = [name |-> "position"]
  /\ before' = layout
  /\ steps' = steps + 1
  /\ UNCHANGED <<input, compactType, allowOverlap, preventCollision>>

\* calcXY(positionParams, top, left, w, h) on the rectangle computed
XY ==
  /\ op.name = "position"
  /\ layout' = calcXY(input.params, layout.top, layout.left, input.w, input.h)
  /\ op' = [name |-> "xy"]
  /\ before' = layout
  /\ steps' = steps + 1
  /\ UNCHANGED <<input, compactType, allowOverlap, preventCollision>>

NextPixels == Position \/ XY

SpecPixels == InitPixels /\ [][NextPixels]_vars

\* the distance in pixels from one column to the next, and from one row to
\* the next
ColumnPitch == ratAdd(calcGridColWidth(input.params), input.params.margin[1])

RowPitch == ratAdd(input.params.rowHeight, input.params.margin[2])

(***************************************************************************)
(* C17, as stated: for all grid parameters and every (x, y, w, h) inside   *)
(* the grid, calcXY applied to the top and left that calcGridItemPosition  *)
(* computed without drag or resize override returns the same (x, y).       *)
(***************************************************************************)
C17_PixelRoundTrip ==
  (op.name = "xy" /\ input.state.kind = "none") =>
    layout = [x |-> Rat(input.x, 1), y |-> Rat(input.y, 1)]

(***************************************************************************)
(* C17, amended: the round trip returns the same (x, y) whenever the       *)
(* column pitch colWidth + margin[0] and the row pitch rowHeight +         *)
(* margin[1] are both greater than one pixel.                              *)
(***************************************************************************)
C17_PixelRoundTripOfWideCells ==
  (op.name = "xy" /\ input.state.kind = "none"
     /\ ratLess(Rat(1, 1), ColumnPitch) /\ ratLess(Rat(1, 1), RowPitch)) =>
    layout = [x |-> Rat(input.x, 1), y |-> Rat(input.y, 1)]

\* a round trip through a pixel position that was rounded: the column pitch
\* is 7/3 pixels and the item is not in the first column
C17_Witness ==
  /\ op.name = "xy" /\ input.state.kind = "none"
  /\ ColumnPitch = Rat(7, 3) /\ ratLess(Rat(1, 1), RowPitch)
  /\ input.x > 0
  /\ layout = [x |-> Rat(input.x, 1), y |-> Rat(input.y, 1)]

(***************************************************************************)
(* validateLayout(layout, contextName).  Of an item only typeof of its x,  *)
(* y, w and h is read, so an item is a record of these four typeof         *)
(* results; lay.isArray is Array.isArray(layout).  The result is what the  *)
(* call throws, or that it returned.                                       *)
(***************************************************************************)
\* the fields tested from h to x
subPropsReversed == <<"h", "w", "y", "x">>

subProps == <<"x", "y", "w", "h">>

\* the inner loop, from the j-th field on: the first field of the item that
\* is not a number, or "" when there is none
RECURSIVE firstNotNumber(_, _)
firstNotNumber(item, j) ==
  IF j > Len(subProps) THEN ""
  ELSE IF item[subProps[j]] # "number" THEN subProps[j]
  ELSE firstNotNumber(item, j + 1)

\* the outer loop, from index i on (layout[i] is the i + 1-th element)
RECURSIVE validateFrom(_, _, _)
validateFrom(items, i, contextName) ==
  IF i >= Len(items) THEN [thrown |-> "nothing", context |-> contextName,
                           index |-> 0, field |-> ""]
  ELSE LET field == firstNotNumber(items[i + 1], 1)
       IN  IF field # ""
             THEN [thrown |-> "must be a number", context |-> contextName,
                   index |-> i, field |-> field]
             ELSE validateFrom(items, i + 1, contextName)

validateLayout(lay, contextName) ==
  IF ~lay.isArray
    THEN [thrown |-> "must be an array", context |-> contextName,
          index |-> 0, field |-> ""]
    ELSE validateFrom(lay.items, 0, contextName)

(***************************************************************************)
(* Validation: input holds the arguments of one call of validateLayout,    *)
(* layout what the call threw.                                             *)
(***************************************************************************)
MaxValidated == 2

FieldTypes == {"number", "string", "undefined"}

ValidatedItems == [x : FieldTypes, y : FieldTypes, w : FieldTypes, h : FieldTypes]

ValidatedLayouts ==
  { [isArray |-> TRUE, items |-> s] :
      s \in UNION { [1..n -> ValidatedItems] : n \in 0..MaxValidated } }
    \cup { [isArray |-> FALSE, items |-> << >>] }

InitValidate ==
  /\ input \in [layout : ValidatedLayouts, contextName : {"Layout", "initialLayout"}]
  /\ layout = << >>
  /\ before = << >>
  /\ op = NoOp
  /\ compactType = "none"
  /\ allowOverlap = FALSE
  /\ preventCollision = FALSE
  /\ steps = 0

Validate ==
  /\ op.name = "init"
  /\ \E r \in {validateLayout(input.layout, input.contextName)} :
       /\ layout' = r
       /\ op' = [name |-> "validate"]
  /\ steps' = steps + 1
  /\ UNCHANGED <<before, input, compactType, allowOverlap, preventCollision>>

NextValidate == Validate

SpecValidate == InitValidate /\ [][NextValidate]_vars

\* the item at position k of the array has a field that is not a number
NotAllNumbers(k) ==
  \E f \in {"x", "y", "w", "h"} : input.layout.items[k][f] # "number"

(***************************************************************************)
(* C18: validateLayout throws for every array with an item whose x, y, w   *)
(* or h is not a number, and the error names the index of the first such   *)
(* item and its first such field in the order x, y, w, h; it throws        *)
(* nothing when the four fields of every item are numbers.                 *)
(***************************************************************************)
C18_ValidateLayoutNamesFirstOffender ==
  (op.name = "validate" /\ input.layout.isArray) =>
    LET items == input.layout.items
        bad   == { k \in 1..Len(items) : NotAllNumbers(k) }
    IN  IF bad = {}
          THEN layout.thrown = "nothing"
          ELSE LET k == CHOOSE a \in bad : \A b \in bad : a <= b
                   item == items[k]
               IN  /\ layout.thrown = "must be a number"
                   /\ layout.context = input.contextName
                   /\ layout.index = k - 1
                   /\ layout.field =
                        (IF item.x # "number" THEN "x"
                         ELSE IF item.y # "number" THEN "y"
                         ELSE IF item.w # "number" THEN "w"
                         ELSE "h")

\* the second item is the first with a field that is not a number, and it
\* has two such fields: the error names index 1 and the earlier field
C18_Witness ==
  /\ op.name = "validate" /\ input.layout.isArray
  /\ Len(input.layout.items) = 2
  /\ ~NotAllNumbers(1)
  /\ input.layout.items[2].y = "undefined" /\ input.layout.items[2].h = "string"
  /\ input.layout.items[2].x = "number"
  /\ layout.thrown = "must be a number" /\ layout.index = 1 /\ layout.field = "y"

(***************************************************************************)
(* Sorting on its own: sortLayoutItems(layout, compactType) applied to     *)
(* arrays in every order, items with equal (x, y) included (a layout that  *)
(* has not been compacted yet, or one kept with allowOverlap, has them).   *)
(* layout holds the returned array, input the caller's array after the     *)
(* call, op.order the place in the caller's array of every returned        *)
(* element.                                                                *)
(***************************************************************************)
InitSort ==
  /\ \E n \in 1..MaxItems : layout \in LayoutsOf(n)
  /\ before = layout
  /\ input = layout
  /\ op = NoOp
  /\ compactType \in CompactTypes
  /\ allowOverlap = FALSE
  /\ preventCollision = FALSE
  /\ steps = 0

\* sortLayoutItems(layout, compactType); slice(0) copies the array before
\* sort reorders it, and mode none returns the caller's array itself
Sort ==
  /\ steps < MaxSteps
  /\ \E tie \in Ties(layout, compactType) :
       \E order \in {sortLayoutItems(layout, IdentityArray(Len(layout)), compactType, tie)} :
         /\ layout' = ArrayItems(layout, order)
         /\ op' = [name |-> "sort", order |-> order,
                   same |-> compactType \notin {"horizontal", "vertical"}]
  /\ input' = layout
  /\ before' = layout
  /\ steps' = steps + 1
  /\ UNCHANGED <<compactType, allowOverlap, preventCollision>>

NextSort == Sort

SpecSort == InitSort /\ [][NextSort]_vars

\* the sort keys of the two items are equal
SameKeys(a, b) == a.x = b.x /\ a.y = b.y

\* a comes no later than b in the order of the mode
Ascending(a, b, mode) ==
  IF mode = "vertical" THEN a.y < b.y \/ (a.y = b.y /\ a.x <= b.x)
  ELSE a.x < b.x \/ (a.x = b.x /\ a.y <= b.y)

\* the comparator sortLayoutItems uses in the mode
Comparator(a, b, mode) ==
  IF mode = "vertical" THEN rowColComparator(a, b) ELSE colRowComparator(a, b)

\* C21: sortLayoutItems returns the items ascending by (y, x) in mode
\* vertical and by (x, y) in mode horizontal, returns the input unchanged in
\* mode none, never reorders the input array, and in both sorted modes the
\* comparator returns 0 for two items with equal keys, so that items with
\* equal keys come out in input order.
C21_SortAscendingTiesInInputOrder ==
  op.name = "sort" =>
    /\ input = before
    /\ Len(layout) = Len(before)
    /\ \A k \in 1..Len(before) : \E p \in 1..Len(layout) : op.order[p] = k
    /\ compactType = "none" => op.same /\ layout = before
    /\ compactType # "none" =>
         /\ \A p, q \in 1..Len(layout) :
              p < q => Ascending(layout[p], layout[q], compactType)
         /\ \A j, k \in 1..Len(before) :
              (j # k /\ SameKeys(before[j], before[k]))
                => Comparator(before[j], before[k], compactType) = 0
         /\ \A p, q \in 1..Len(layout) :
              (p < q /\ SameKeys(layout[p], layout[q])) => op.order[p] < op.order[q]

(***************************************************************************)
(* The direct assignment of mode none (moveElementAwayFromCollision,       *)
(* branch `collisionNorth && compactType == null`, noCompactTypeMovingUp). *)
(***************************************************************************)
\* the objects when the loop of the top-level call starts: the item of the
\* move lies at the target
AtTarget == [before EXCEPT ![op.item] = [MovedTo EXCEPT !.moved = TRUE]]

\* the first collision of the loop, in array order
FirstHit ==
  CHOOSE k \in 1..Len(before) :
    /\ collides(MovedTo, before[k])
    /\ \A j \in 1..(k - 1) : ~collides(MovedTo, before[j])

\* the item that stays and the item that is assigned: a static collision
\* stays and the item of the move gives way
Stationary == IF before[FirstHit].static THEN FirstHit ELSE op.item

ToMove == IF before[FirstHit].static THEN op.item ELSE FirstHit

\* the probe of an upward move in mode none is the rectangle of the item to
\* move; ProbeHit is the first item of the array it collides with
ProbeHit ==
  getFirstCollision(AtTarget, [x |-> AtTarget[ToMove].x, y |-> AtTarget[ToMove].y,
                               w |-> AtTarget[ToMove].w, h |-> AtTarget[ToMove].h,
                               i |-> -1])

\* the case of the claim: a user's upward move in mode none reaches the
\* loop, the probe collides, and the bottom edge of the item it hits is
\* below the top of the stationary item
PrimaryUpwardCollision ==
  /\ op.name = "move"
  /\ compactType = "none"
  /\ op.isUserAction
  /\ ~allowOverlap
  /\ ~preventCollision
  /\ ~Fixed(before[op.item])
  /\ before[op.item].y > op.y
  /\ TargetCollides
  /\ ProbeHit # 0
  /\ AtTarget[ProbeHit].y + AtTarget[ProbeHit].h > AtTarget[Stationary].y

\* the array holds every object once, ascending by (y, x)
SortedByRowCol(heap, arr) ==
  /\ Len(arr) = Len(heap)
  /\ \A k \in 1..Len(heap) : \E p \in 1..Len(arr) : arr[p] = k
  /\ \A p, q \in 1..Len(arr) :
       p < q => \/ heap[arr[p]].y < heap[arr[q]].y
                \/ /\ heap[arr[p]].y = heap[arr[q]].y
                   /\ heap[arr[p]].x <= heap[arr[q]].x

\* C22: in mode none, on the collision of a user's upward move where the
\* probe collides and the collider's bottom edge is below the top of the
\* stationary item, the item to move gets y = stationary.y + stationary.h,
\* nothing else is changed and no further moveElement call is made, and the
\* layout returned is the whole layout sorted ascending by (y, x).
C22_UpwardMoveInNoneModePushesBelow ==
  op.name = "move" =>
    /\ PrimaryUpwardCollision =>
         /\ Len(op.pushes) >= 1
         /\ op.pushes[1].item = ToMove
         /\ op.pushes[1].stationary = Stationary
         /\ op.pushes[1].from = AtTarget
    /\ \A e \in 1..Len(op.pushes) :
         LET push == op.pushes[e]
             below == push.from[push.stationary].y + push.from[push.stationary].h
         IN  /\ push.to = [push.from EXCEPT ![push.item].y = below]
             /\ push.calls = 0
             /\ SortedByRowCol(push.to, push.arr)
    /\ op.pushes # << >> =>
         /\ layout = ArrayItems(input, op.pushes[Len(op.pushes)].arr)
         /\ SortedByRowCol(input, op.pushes[Len(op.pushes)].arr)

\* an upward move in mode none whose collision was pushed below the
\* stationary item, with the returned array in another order than the input
C22_Witness ==
  /\ PrimaryUpwardCollision
  /\ Len(op.pushes) >= 1
  /\ input[ToMove].y = AtTarget[Stationary].y + AtTarget[Stationary].h
  /\ input[ToMove].y # before[ToMove].y
  /\ Len(layout) = Len(before)
  /\ \E p \in 1..Len(layout) : layout[p].i # before[p].i

(***************************************************************************)
(* resolveCompactionCollision as compact reaches it: the first call that   *)
(* the loop of compact makes, through compactItem, for a layout.  Up to    *)
(* that call no object of the caller has been changed.  before holds the   *)
(* caller's objects before the call and layout and input hold them after   *)
(* it; op keeps the arguments: the sorted array, the place k of the item   *)
(* in it, the item once item[axis] += 1 is done, moveToCoord and the axis. *)
(***************************************************************************)
MaxResolved == 4

MaxResolves == 1

\* items one unit wide and high
UnitShapes == { s \in Shapes : s.w = 1 /\ s.h = 1 }

\* the layouts of MaxResolved unit items: the scan needs an item to resolve,
\* the item it collides with and two later items to pass one and miss the
\* other
UnitLayouts ==
  { [k \in 1..MaxResolved |-> Item(k, f[k].x, f[k].y, f[k].w, f[k].h,
                                   f[k].static, FALSE, FALSE)] :
      f \in [1..MaxResolved -> UnitShapes] }

RECURSIVE firstResolveFrom(_, _, _, _, _, _)
\* the loop of compact from the k-th element of sorted on, up to the first
\* item that compactItem cannot place without resolveCompactionCollision:
\* its place in sorted (0 if there is none), the item pulled towards the
\* origin, and compareWith
firstResolveFrom(heap, sorted, k, compareWith, mode, cols) ==
  IF k > Len(sorted) THEN [k |-> 0, l |-> heap[1], compareWith |-> compareWith]
  ELSE LET l  == cloneLayoutItem(heap[sorted[k]])
           l1 == compactItemUnresolved(compareWith, l, mode, cols, sorted, k,
                                       heap, FALSE).l
       IN  IF l.static
             THEN firstResolveFrom(heap, sorted, k + 1, compareWith, mode, cols)
           ELSE IF getFirstCollision(compareWith, l1) # 0
             THEN [k |-> k, l |-> l1, compareWith |-> compareWith]
           ELSE firstResolveFrom(heap, sorted, k + 1,
                                 Append(compareWith, clearMoved(l1)), mode, cols)

InitResolve ==
  /\ \/ \E n \in 1..MaxItems : layout \in LayoutsOf(n)
     \/ layout \in UnitLayouts
  /\ before = layout
  /\ input = layout
  /\ op = NoOp
  /\ compactType \in {"vertical", "horizontal"}
  /\ allowOverlap = FALSE
  /\ preventCollision = FALSE
  /\ steps = 0

\* resolveCompactionCollision(fullLayout, l, collides.x + collides.w, "x") or
\* resolveCompactionCollision(fullLayout, l, collides.y + collides.h, "y")
ResolveCollision ==
  /\ steps < MaxResolves
  /\ \E tie \in Ties(layout, compactType) :
       \E sorted \in {sortLayoutItems(layout, IdentityArray(Len(layout)), compactType, tie)} :
         \E f \in {firstResolveFrom(layout, sorted, 1, getStatics(layout), compactType, Cols)} :
           /\ f.k # 0
           /\ \E hit \in {f.compareWith[getFirstCollision(f.compareWith, f.l)]} :
                \E axis \in {IF compactType = "horizontal" THEN "x" ELSE "y"} :
                  \E moveToCoord \in {IF axis = "x" THEN hit.x + hit.w ELSE hit.y + hit.h} :
                    \E r \in {resolveCompactionCollisionOfClone(layout, sorted, f.k, f.l, moveToCoord, axis)} :
                      /\ layout' = r.heap
                      /\ input' = r.heap
                      /\ op' = [name |-> "resolve", sorted |-> sorted, k |-> f.k,
                                item |-> bumped(f.l, axis), placed |-> r.l,
                                moveToCoord |-> moveToCoord, axis |-> axis]
  /\ before' = layout
  /\ steps' = steps + 1
  /\ UNCHANGED <<compactType, allowOverlap, preventCollision>>

NextResolve == ResolveCollision

SpecResolve == InitResolve /\ [][NextResolve]_vars

\* the start and the far edge of an item on the axis
StartOn(item, axis) == IF axis = "x" THEN item.x ELSE item.y

FarEdgeOn(item, axis) == StartOn(item, axis) + sizeOf(item, axis)

\* the places in the sorted array of the later non-static items
LaterItems == { j \in (op.k + 1)..Len(op.sorted) : ~before[op.sorted[j]].static }

\* the first of them: the scan reaches it before any object has changed
FirstLater == CHOOSE j \in LaterItems : \A q \in LaterItems : j <= q

\* C23: when compaction displaces an item forward along the active axis,
\* every later-sorted non-static item that collides with the item at its new
\* extent is pushed further along that axis, and the scan of the later items
\* stops only once a later item's start on the active axis (x in horizontal
\* mode, y in vertical mode) exceeds the displaced item's far edge on it.
C23_LaterCollidingItemsPushed ==
  op.name = "resolve" =>
    /\ \A j \in LaterItems :
         collides(op.item, before[op.sorted[j]])
           => StartOn(input[op.sorted[j]], op.axis) > StartOn(before[op.sorted[j]], op.axis)
    /\ LaterItems # {} =>
         (pastItem(before[op.sorted[FirstLater]], op.item)
            => StartOn(before[op.sorted[FirstLater]], op.axis) > FarEdgeOn(op.item, op.axis))

\* C24: moveElement and its whole cascade never add, remove or duplicate an
\* item and never change an item's id, w or h: the returned layout holds
\* every id of the input exactly once, each with its input w and h, and the
\* caller's objects keep their id, w and h, in every mode and with every
\* combination of the flags.
C24_MoveKeepsItemsAndSizes ==
  op.name = "move" =>
    /\ Len(layout) = Len(before)
    /\ Len(input) = Len(before)
    /\ \A k \in 1..Len(before) :
         /\ input[k].i = before[k].i
         /\ input[k].w = before[k].w
         /\ input[k].h = before[k].h
         /\ Cardinality({p \in 1..Len(layout) : layout[p].i = before[k].i}) = 1
         /\ \A p \in 1..Len(layout) :
              layout[p].i = before[k].i
                => layout[p].w = before[k].w /\ layout[p].h = before[k].h

\* a move that set off a cascade: more than one moveElement call, and an
\* item other than the moved one lies elsewhere afterwards
C24_Witness ==
  /\ op.name = "move"
  /\ op.calls >= 2
  /\ \E k \in 1..Len(before) :
       k # op.item /\ Geometry(input[k]) # Geometry(before[k])

=============================================================================
